---- MODULE Spec2Model ----
(***************************************************************************)
(* A model of the TACVIEW ACMI air-to-air combat analyzers and of the      *)
(* combat log extractor.                                                   *)
(*                                                                         *)
(*   src/improved_acmi_analyzer.py  ImprovedCombatAnalyzer (coalition-     *)
(*                                  level apportionment of launches)       *)
(*   src/acmi_analyzer.py           CombatAnalyzer (launches attributed    *)
(*                                  through the munition's Parent id)      *)
(*   src/extract_combat_logs.py     extract_combat_logs (the 'COMBAT_LOG:' *)
(*                                  lines of a DCS log)                    *)
(*                                                                         *)
(* A run is main(): load_acmi, the analysis steps in the order             *)
(* run_analysis calls them, generate_report, then the optional JSON        *)
(* export and the process exit.  The recorded session (the objects pyacmi  *)
(* returns from alive_objects() and removed_objects()) is the input and is *)
(* drawn in Init.                                                          *)
(*                                                                         *)
(* Type designators (the objects' 'Name') are tuples of one-character      *)
(* strings, so that Python's substring test `pat in name` is computed and  *)
(* not assumed.  Pilot names and coalition labels are only ever compared   *)
(* for equality by the code and stay plain strings.                        *)
(*                                                                         *)
(* Arithmetic: int(m * 0.3) and int(losses * (m / total)) are computed in  *)
(* the source with IEEE doubles.  For every m < 200 the first equals       *)
(* (3*m) \div 10, and for every total < 88 the second equals               *)
(* (losses*m) \div total; the model's bounds stay far below both, so the   *)
(* integer forms below give the values the source computes.                *)
(***************************************************************************)
EXTENDS Integers, Sequences, FiniteSets, TLC

VARIABLES
    analyzer,         \* which script runs: "improved" or "basic"
    alive_objects,    \* what acmi.alive_objects() returns once loaded
    removed_objects,  \* what acmi.removed_objects() returns once loaded
    pc,               \* position of main() in the run
    pilot_stats,      \* self.pilot_stats, in dict insertion order
    attribution,      \* one entry per apportioned (coalition, missile type)
    report,           \* the summary generate_report printed, <<>> before
    exported,         \* the document export_to_json wrote, <<>> if none
    exit_code,        \* the process exit status, -1 while running
    input_file,       \* extract_combat_logs: the lines of the file read
    extract_pc,       \* extract_combat_logs: position of the call
    total_lines,      \* extract_combat_logs: lines read so far
    combat_lines,     \* extract_combat_logs: lines that held the marker
    combat_logs,      \* extract_combat_logs: the entries collected
    output_file,      \* extract_combat_logs: what was written, <<>> if
                      \* the file was never opened
    returned          \* extract_combat_logs: "none", "True" or "False"

extract_vars == <<input_file, extract_pc, total_lines, combat_lines,
                  combat_logs, output_file, returned>>

analysis_vars == <<analyzer, alive_objects, removed_objects, pc, pilot_stats,
                   attribution, report, exported, exit_code>>

vars == <<analyzer, alive_objects, removed_objects, pc, pilot_stats,
          attribution, report, exported, exit_code, input_file, extract_pc,
          total_lines, combat_lines, combat_logs, output_file, returned>>

----------------------------------------------------------------------------
(* Bounds of the model.                                                    *)

MaxAircraft == 3

MaxSalvo == 7

MaxLinkAircraft == 2

MaxLinked == 2

MaxLaunches == 4

MaxLines == 3

----------------------------------------------------------------------------
(* Strings.                                                                *)

\* Python's `pat in s` on strings: pat occurs as a contiguous substring.
Contains(pat, s) ==
    \E i \in 0..(Len(s) - Len(pat)) : SubSeq(s, i + 1, i + Len(pat)) = pat

AnyIn(pats, s) == \E k \in 1..Len(pats) : Contains(pats[k], s)

F16 == <<"F", "-", "1", "6">>
F4 == <<"F", "-", "4">>
F18 == <<"F", "-", "1", "8">>
FA18 == <<"F", "A", "-", "1", "8">>
MiG21 == <<"M", "i", "G", "-", "2", "1">>
MiG23 == <<"M", "i", "G", "-", "2", "3">>
MiG25 == <<"M", "i", "G", "-", "2", "5">>
Su27 == <<"S", "u", "-", "2", "7">>

AIM_120 == <<"A", "I", "M", "_", "1", "2", "0">>
AIM9L == <<"A", "I", "M", "-", "9", "L">>
AIM9M == <<"A", "I", "M", "-", "9", "M">>
AIM9X == <<"A", "I", "M", "-", "9", "X">>
AIM7 == <<"A", "I", "M", "-", "7">>
R27 == <<"R", "-", "2", "7">>
R73 == <<"R", "-", "7", "3">>
R77 == <<"R", "-", "7", "7">>
P_24R == <<"P", "_", "2", "4", "R">>

\* self.air_to_air_missiles.keys(), in insertion order
air_to_air_missiles ==
    <<AIM_120, AIM9L, AIM9M, AIM9X, AIM7, R27, R73, R77, P_24R>>

\* self.air_to_air_missiles.values(), in the same order
missile_family_labels ==
    <<"AMRAAM", "Sidewinder", "Sidewinder", "Sidewinder", "Sparrow",
      "Alamo", "Archer", "Adder", "Apex">>

fighters == <<F16, F4, F18, FA18, MiG21, MiG23, MiG25, Su27>>
western_aircraft == <<F16, F4, F18, FA18>>
eastern_aircraft == <<MiG21, MiG23, MiG25, Su27>>
western_missiles == <<AIM_120, AIM9L, AIM9M, AIM9X, AIM7>>
eastern_missiles == <<R27, R73, R77, P_24R>>

----------------------------------------------------------------------------
(* The recorded session.                                                   *)

\* Designators that occur in the sessions drawn.
F16C == <<"F", "-", "1", "6", "C">>
MiG21Bis == <<"M", "i", "G", "-", "2", "1", "B", "i", "s">>
C130 == <<"C", "-", "1", "3", "0">>
AGM65 == <<"A", "G", "M", "-", "6", "5">>

\* An object as the analyzers read it: is_plane / is_missile (kind), pilot(),
\* coalition(), and json()'s Name, Parent and ID.  The sessions drawn record
\* no Country and no Group, so json().get(..., 'Unknown') gives 'Unknown'.
\* Parent 0 is a munition whose launcher was not recorded.
Plane(pilot, name, coalition) ==
    [kind |-> "plane", Pilot |-> pilot, Name |-> name, Coalition |-> coalition,
     Parent |-> 0]

Missile(name, coalition, parent) ==
    [kind |-> "missile", Pilot |-> "", Name |-> name, Coalition |-> coalition,
     Parent |-> parent]

\* The aircraft a session is drawn from.  "" is an aircraft with no pilot.
AircraftCatalog ==
    { Plane("A", F16C, "Allies"),
      Plane("B", F16C, "Allies"),
      Plane("D", MiG21Bis, "Enemies"),
      Plane("E", C130, "Allies"),
      Plane("", F16C, "Blue") }

\* The munitions a session is drawn from (no Parent recorded).
MissileCatalog ==
    { Missile(AIM9L, "Allies", 0),
      Missile(AIM9M, "Allies", 0),
      Missile(R73, "Allies", 0),
      Missile(R73, "Enemies", 0),
      Missile(AGM65, "Allies", 0) }

SeqsUpTo(S, n) == UNION { [1..k -> S] : k \in 0..n }

Repeat(x, n) == [i \in 1..n |-> x]

\* Object ids are unique in a session: the position in alive ++ removed.
WithIds(objs, base) ==
    [i \in 1..Len(objs) |-> objs[i] @@ [ID |-> base + i]]

\* Removed munitions: none, a salvo of 1..MaxSalvo of one catalog entry, or
\* one munition of an entry followed by one of another.
MissileLists ==
    { <<>> }
    \cup { Repeat(m, n) : m \in MissileCatalog, n \in 1..MaxSalvo }
    \cup { <<mm[1], mm[2]>> :
             mm \in { m \in MissileCatalog \X MissileCatalog : m[1] # m[2] } }

\* Munitions with a launcher reference: up to MaxLinked of one designator,
\* each with Parent 0 (none recorded) or an object id, listed by Parent.
\* The aircraft have the ids 1..Len(aircraft), the munitions the ids after
\* them (Len(aircraft) + 1 is the first munition's), and
\* Len(aircraft) + MaxLinked + 1 is an id no object has.  A munition
\* launched by an aircraft of the session is of its coalition.
LinkedLists(aircraft) ==
    { [k \in 1..Len(parents) |->
          Missile(name,
                  IF parents[k] \in 1..Len(aircraft)
                  THEN aircraft[parents[k]].Coalition ELSE "Allies",
                  parents[k])] :
        name \in {AIM9L, AGM65},
        parents \in { ps \in SeqsUpTo((0..(Len(aircraft) + 1))
                                         \cup {Len(aircraft) + MaxLinked + 1},
                                       MaxLinked) :
                        \A k \in 1..(Len(ps) - 1) : ps[k] <= ps[k + 1] } }

----------------------------------------------------------------------------
(* pyacmi object accessors.                                                *)

is_plane(obj) == obj.kind = "plane"

is_missile(obj) == obj.kind = "missile"

\* Python's `x in list`: pyacmi objects compare by identity, ids are unique.
InList(x, list) == \E k \in 1..Len(list) : list[k] = x

\* dict keys in insertion order: the first occurrence of each element.
RECURSIVE FirstSeen(_)
FirstSeen(s) ==
    IF s = <<>> THEN <<>>
    ELSE LET init == FirstSeen(SubSeq(s, 1, Len(s) - 1))
             last == s[Len(s)]
         IN IF InList(last, init) THEN init ELSE Append(init, last)

RECURSIVE SumSeq(_)
SumSeq(s) == IF s = <<>> THEN 0 ELSE s[1] + SumSeq(Tail(s))

Count(s, Test(_)) == Len(SelectSeq(s, Test))

----------------------------------------------------------------------------
(* self.pilot_stats: a dict, kept as the sequence of its values in         *)
(* insertion order; the key of an entry is its pilot_name.                 *)

HasPilot(stats, pilot) == \E k \in 1..Len(stats) : stats[k].pilot_name = pilot

IndexOf(stats, pilot) == CHOOSE k \in 1..Len(stats) : stats[k].pilot_name = pilot

StatsOf(stats, pilot) == stats[IndexOf(stats, pilot)]

PilotNamesOf(stats) == { stats[k].pilot_name : k \in 1..Len(stats) }

----------------------------------------------------------------------------
(* ImprovedCombatAnalyzer                                                  *)

\* analyze_combat_data, lines 68-73: the categorised objects
alive_aircraft == SelectSeq(alive_objects, is_plane)

removed_aircraft == SelectSeq(removed_objects, is_plane)

all_aircraft == alive_aircraft \o removed_aircraft

is_air_to_air_missile(missile) == AnyIn(air_to_air_missiles, missile.Name)

missiles == SelectSeq(removed_objects, is_missile)

aa_missiles == SelectSeq(missiles, is_air_to_air_missile)

\* analyze_pilots, lines 99-103
alive_pilots(alive) ==
    { alive[k].Pilot : k \in { j \in 1..Len(alive) : alive[j].Pilot # "" } }

\* (a variant that leaves survived at the defaultdict's False)
NewPilotStats_survived_default(aircraft, alive) ==
    [pilot_name |-> aircraft.Pilot,
     aircraft_type |-> aircraft.Name,
     coalition |-> aircraft.Coalition,
     country |-> "Unknown",
     group |-> "Unknown",
     missiles_fired |-> 0,
     air_to_air_kills |-> 0,
     deaths |-> 0,
     survived |-> FALSE,
     missile_types_used |-> <<>>,
     estimated_hit_rate |-> 0]

\* analyze_pilots, lines 114-126: the entry of a pilot seen for the first time
NewPilotStats(aircraft, alive) ==
    [pilot_name |-> aircraft.Pilot,
     aircraft_type |-> aircraft.Name,
     coalition |-> aircraft.Coalition,
     country |-> "Unknown",
     group |-> "Unknown",
     missiles_fired |-> 0,
     air_to_air_kills |-> 0,
     deaths |-> 0,
     survived |-> aircraft.Pilot \in alive_pilots(alive),
     missile_types_used |-> <<>>,
     estimated_hit_rate |-> 0]

\* (a variant that counts a death only for a pilot with no alive aircraft)
CountDeath_unless_survived(stats, aircraft, alive) ==
    IF ~InList(aircraft, alive) /\ aircraft.Pilot \notin alive_pilots(alive)
    THEN [stats EXCEPT ![IndexOf(stats, aircraft.Pilot)].deaths = @ + 1]
    ELSE stats

\* analyze_pilots, lines 128-130
CountDeath(stats, aircraft, alive) ==
    IF ~InList(aircraft, alive)
    THEN [stats EXCEPT ![IndexOf(stats, aircraft.Pilot)].deaths = @ + 1]
    ELSE stats

\* (a variant without the test of lines 107-108: a record without a pilot
\* name is entered under the empty name)
AnalyzePilotStep_no_skip(stats, aircraft, alive) ==
    LET known == IF HasPilot(stats, aircraft.Pilot) THEN stats
                 ELSE Append(stats, NewPilotStats(aircraft, alive))
    IN CountDeath(known, aircraft, alive)

\* analyze_pilots, lines 105-130: one iteration of the loop
AnalyzePilotStep(stats, aircraft, alive) ==
    IF aircraft.Pilot = "" THEN stats
    ELSE LET known == IF HasPilot(stats, aircraft.Pilot) THEN stats
                      ELSE Append(stats, NewPilotStats(aircraft, alive))
         IN CountDeath(known, aircraft, alive)

RECURSIVE AnalyzePilotsLoop(_, _, _)
AnalyzePilotsLoop(stats, rest, alive) ==
    IF rest = <<>> THEN stats
    ELSE AnalyzePilotsLoop(AnalyzePilotStep(stats, Head(rest), alive),
                           Tail(rest), alive)

\* (a variant without the platform table: any aircraft carries any missile)
can_carry_missile_any(aircraft_type, missile_type) == TRUE

is_fighter_aircraft(aircraft_type) == AnyIn(fighters, aircraft_type)

can_carry_missile(aircraft_type, missile_type) ==
    \/ AnyIn(western_aircraft, aircraft_type) /\ AnyIn(western_missiles, missile_type)
    \/ AnyIn(eastern_aircraft, aircraft_type) /\ AnyIn(eastern_missiles, missile_type)

\* estimate_missile_usage, lines 137-140: coalition_missiles.keys()
MissileCoalitions(ms) == FirstSeen([k \in 1..Len(ms) |-> ms[k].Coalition])

\* estimate_missile_usage, line 140: coalition_missiles[coalition]
coalition_missiles(ms, coalition) ==
    SelectSeq(ms, LAMBDA m : m.Coalition = coalition)

\* estimate_missile_usage, lines 143-148: coalition_pilots[coalition]
coalition_pilots(stats, coalition) ==
    LET able == SelectSeq(stats, LAMBDA st :
                    st.coalition = coalition /\ is_fighter_aircraft(st.aircraft_type))
    IN [k \in 1..Len(able) |-> able[k].pilot_name]

\* estimate_missile_usage, lines 157-161: missile_types.keys() and counts
MissileTypeKeys(ms) == FirstSeen([k \in 1..Len(ms) |-> ms[k].Name])

MissileTypeCount(ms, missile_type) ==
    Count(ms, LAMBDA m : m.Name = missile_type)

\* estimate_missile_usage, line 165
capable_pilots(stats, pilots, missile_type) ==
    SelectSeq(pilots, LAMBDA p :
        can_carry_missile(StatsOf(stats, p).aircraft_type, missile_type))

\* estimate_missile_usage, lines 168-174: what the i-th capable pilot
\* (i counted from 0, as enumerate does) is given out of count
\* (a variant that also serves the pilot at index `remainder`)
missiles_to_add_inclusive(count, n_capable, i) ==
    (count \div n_capable) + (IF i <= count % n_capable THEN 1 ELSE 0)

\* (a variant that hands the remainder to the last pilots served)
missiles_to_add_from_last(count, n_capable, i) ==
    (count \div n_capable)
    + (IF i >= n_capable - (count % n_capable) THEN 1 ELSE 0)

missiles_to_add(count, n_capable, i) ==
    (count \div n_capable) + (IF i < count % n_capable THEN 1 ELSE 0)

\* estimate_missile_usage, lines 176-178
CreditPilot(stats, pilot, n, missile_type) ==
    LET k == IndexOf(stats, pilot)
    IN [stats EXCEPT
          ![k].missiles_fired = @ + n,
          ![k].missile_types_used =
              IF InList(missile_type, @) THEN @ ELSE Append(@, missile_type)]

\* estimate_missile_usage, lines 171-178: the loop over capable_pilots
RECURSIVE CreditCapable(_, _, _, _, _)
CreditCapable(stats, capable, count, missile_type, i) ==
    IF i >= Len(capable) THEN stats
    ELSE CreditCapable(
             CreditPilot(stats, capable[i + 1],
                         missiles_to_add(count, Len(capable), i), missile_type),
             capable, count, missile_type, i + 1)

\* What one pass of lines 164-178 handed out: the pilots in the order they
\* were served and the units each was given.
AttributionResult(coalition, missile_type, count, capable) ==
    [coalition |-> coalition, missile_type |-> missile_type, count |-> count,
     pilots |-> capable,
     credits |-> [k \in 1..Len(capable) |->
                     missiles_to_add(count, Len(capable), k - 1)]]

\* estimate_missile_usage, lines 164-178: one missile type of one coalition.
\* acc is [stats, attribution].
DistributeType(acc, coalition, ms, pilots, missile_type) ==
    LET count == MissileTypeCount(ms, missile_type)
        capable == capable_pilots(acc.stats, pilots, missile_type)
    IN IF capable = <<>> THEN acc
       ELSE [stats |-> CreditCapable(acc.stats, capable, count, missile_type, 0),
             attribution |->
                 Append(acc.attribution,
                        AttributionResult(coalition, missile_type, count, capable))]

RECURSIVE DistributeTypes(_, _, _, _, _)
DistributeTypes(acc, coalition, ms, pilots, types) ==
    IF types = <<>> THEN acc
    ELSE DistributeTypes(DistributeType(acc, coalition, ms, pilots, Head(types)),
                         coalition, ms, pilots, Tail(types))

\* estimate_missile_usage, lines 151-178: one coalition
DistributeCoalition(acc, all_missiles, coalition) ==
    LET ms == coalition_missiles(all_missiles, coalition)
        pilots == coalition_pilots(acc.stats, coalition)
    IN IF pilots = <<>> THEN acc
       ELSE DistributeTypes(acc, coalition, ms, pilots, MissileTypeKeys(ms))

RECURSIVE DistributeCoalitions(_, _, _)
DistributeCoalitions(acc, all_missiles, coalitions) ==
    IF coalitions = <<>> THEN acc
    ELSE DistributeCoalitions(
             DistributeCoalition(acc, all_missiles, Head(coalitions)),
             all_missiles, Tail(coalitions))

\* estimate_missile_usage as a whole
EstimateMissileUsage(stats, all_missiles) ==
    DistributeCoalitions([stats |-> stats, attribution |-> <<>>],
                         all_missiles, MissileCoalitions(all_missiles))

\* calculate_kill_estimates, line 216
enemy_coalition(pilot_coalition) ==
    IF pilot_coalition = "Enemies" THEN "Allies" ELSE "Enemies"

\* calculate_kill_estimates, lines 205-208
coalition_losses(removed, coalition) ==
    Count(removed, LAMBDA a : a.Coalition = coalition)

\* calculate_kill_estimates, lines 223-230
total_coalition_missiles(stats, pilot_coalition) ==
    LET shooters == SelectSeq(stats, LAMBDA st :
                        st.coalition = pilot_coalition /\ st.missiles_fired > 0)
    IN SumSeq([k \in 1..Len(shooters) |-> shooters[k].missiles_fired])

\* calculate_kill_estimates, line 234: estimated_hit_rate = 0.3, in tenths
HitRateTenths == 3

Min(a, b) == IF a <= b THEN a ELSE b

\* (a variant that takes the larger of the two bounds)
estimated_kills_larger(fired, enemy_losses, total) ==
    IF (fired * HitRateTenths) \div 10 >= (enemy_losses * fired) \div total
    THEN (fired * HitRateTenths) \div 10
    ELSE (enemy_losses * fired) \div total

\* (a variant that keeps the hit-rate bound and drops the share of the losses)
estimated_kills_hit_rate_only(fired, enemy_losses, total) ==
    (fired * HitRateTenths) \div 10

\* calculate_kill_estimates, lines 235-238: min(int(fired * 0.3),
\* int(enemy_losses * (fired / total)))
estimated_kills(fired, enemy_losses, total) ==
    Min((fired * HitRateTenths) \div 10, (enemy_losses * fired) \div total)

\* calculate_kill_estimates, lines 211-241: the loop body for one pilot
KillEstimate(stats, st, removed) ==
    IF st.missiles_fired = 0 THEN st
    ELSE LET enemy_losses == coalition_losses(removed, enemy_coalition(st.coalition))
         IN IF enemy_losses = 0 THEN st
            ELSE [st EXCEPT
                    !.air_to_air_kills =
                        estimated_kills(st.missiles_fired, enemy_losses,
                            total_coalition_missiles(stats, st.coalition)),
                    !.estimated_hit_rate = HitRateTenths]

\* calculate_kill_estimates as a whole.  An iteration writes only the
\* pilot's own air_to_air_kills and estimated_hit_rate, which no other
\* iteration reads.
CalculateKillEstimates(stats, removed) ==
    [k \in 1..Len(stats) |-> KillEstimate(stats, stats[k], removed)]

\* generate_report, lines 291-321: the summary and the coalition breakdown
CoalitionBreakdown(stats, coalition) ==
    LET own == SelectSeq(stats, LAMBDA st : st.coalition = coalition)
    IN [pilots |-> Len(own),
        survivors |-> Count(own, LAMBDA st : st.survived),
        missiles |-> SumSeq([k \in 1..Len(own) |-> own[k].missiles_fired]),
        kills |-> SumSeq([k \in 1..Len(own) |-> own[k].air_to_air_kills]),
        deaths |-> SumSeq([k \in 1..Len(own) |-> own[k].deaths])]

GenerateReport(stats) ==
    [total_pilots |-> Len(stats),
     total_missiles |-> SumSeq([k \in 1..Len(stats) |-> stats[k].missiles_fired]),
     total_kills |-> SumSeq([k \in 1..Len(stats) |-> stats[k].air_to_air_kills]),
     total_deaths |-> SumSeq([k \in 1..Len(stats) |-> stats[k].deaths]),
     survivors |-> Count(stats, LAMBDA st : st.survived),
     coalitions |-> [c \in { stats[k].coalition : k \in 1..Len(stats) } |->
                        CoalitionBreakdown(stats, c)]]

\* export_to_json, lines 337-346 (the timestamp is left out)
ExportDocument(stats) ==
    [mission_info |-> "global_json",
     pilot_statistics |-> stats,
     analysis_notes |-> 3]

----------------------------------------------------------------------------
(* CombatAnalyzer (acmi_analyzer.py)                                       *)

\* analyze_objects, lines 54-71
basic_all_objects == alive_objects \o removed_objects

basic_aircraft == SelectSeq(basic_all_objects, is_plane)

basic_missiles ==
    SelectSeq(basic_all_objects, LAMBDA obj : ~is_plane(obj) /\ is_missile(obj))

\* analyze_aircraft, lines 91-107: the entry of a pilot seen for the first
\* time.  kills_list, death_cause, flight_time, max_altitude and max_speed
\* are never written again and are left out.
BasicNewPilotStats(plane) ==
    [pilot_name |-> plane.Pilot,
     aircraft_type |-> plane.Name,
     coalition |-> plane.Coalition,
     country |-> "Unknown",
     group |-> "Unknown",
     missiles_fired |-> 0,
     missiles_hit |-> 0,
     air_to_air_kills |-> 0,
     deaths |-> 0,
     missiles_fired_list |-> <<>>]

\* analyze_aircraft, lines 82-111: one iteration of the loop
BasicAnalyzeAircraftStep(stats, plane, removed) ==
    IF plane.Pilot = "" THEN stats
    ELSE LET known == IF HasPilot(stats, plane.Pilot) THEN stats
                      ELSE Append(stats, BasicNewPilotStats(plane))
         IN IF InList(plane, removed)
            THEN [known EXCEPT ![IndexOf(known, plane.Pilot)].deaths = @ + 1]
            ELSE known

RECURSIVE BasicAnalyzeAircraft(_, _, _)
BasicAnalyzeAircraft(stats, rest, removed) ==
    IF rest = <<>> THEN stats
    ELSE BasicAnalyzeAircraft(BasicAnalyzeAircraftStep(stats, Head(rest), removed),
                              Tail(rest), removed)

\* find_pilot_by_object_id, lines 143-150: the pilot of the first plane with
\* that id, "" when there is none (None) or the plane has no pilot
find_pilot_by_object_id(objects, object_id) ==
    LET hits == SelectSeq(objects, LAMBDA obj : obj.ID = object_id /\ is_plane(obj))
    IN IF hits = <<>> THEN "" ELSE hits[1].Pilot

\* (a variant without the air-to-air test of line 124)
BasicAnalyzeMissileStep_any_missile(stats, missile, objects) ==
    IF missile.Parent = 0 THEN stats
    ELSE LET parent_pilot == find_pilot_by_object_id(objects, missile.Parent)
         IN IF parent_pilot = "" THEN stats
            ELSE [stats EXCEPT
                    ![IndexOf(stats, parent_pilot)].missiles_fired = @ + 1,
                    ![IndexOf(stats, parent_pilot)].missiles_fired_list =
                        Append(@, missile.Name)]

\* analyze_missiles, lines 119-137: one iteration of the loop
BasicAnalyzeMissileStep(stats, missile, objects) ==
    IF ~AnyIn(air_to_air_missiles, missile.Name) THEN stats
    ELSE IF missile.Parent = 0 THEN stats
    ELSE LET parent_pilot == find_pilot_by_object_id(objects, missile.Parent)
         IN IF parent_pilot = "" THEN stats
            ELSE [stats EXCEPT
                    ![IndexOf(stats, parent_pilot)].missiles_fired = @ + 1,
                    ![IndexOf(stats, parent_pilot)].missiles_fired_list =
                        Append(@, missile.Name)]

RECURSIVE BasicAnalyzeMissiles(_, _, _)
BasicAnalyzeMissiles(stats, rest, objects) ==
    IF rest = <<>> THEN stats
    ELSE BasicAnalyzeMissiles(BasicAnalyzeMissileStep(stats, Head(rest), objects),
                              Tail(rest), objects)

\* calculate_kill_statistics, line 173: the coalition's pilots who fired
BasicShooters(stats, coalition) ==
    Count(stats, LAMBDA st : st.coalition = coalition /\ st.missiles_fired > 0)

\* calculate_kill_statistics, line 173: min(fired // 2, losses // n or 1)
basic_estimated_kills(fired, enemy_losses, n_shooters) ==
    Min(fired \div 2,
        IF enemy_losses \div n_shooters = 0 THEN 1 ELSE enemy_losses \div n_shooters)

\* calculate_kill_statistics, lines 164-174: the loop body for one pilot
BasicKillStatistics(stats, st, removed) ==
    IF st.missiles_fired > 0
    THEN LET enemy_losses ==
                 coalition_losses(removed, enemy_coalition(st.coalition))
         IN IF enemy_losses > 0
            THEN LET kills == basic_estimated_kills(st.missiles_fired, enemy_losses,
                                  BasicShooters(stats, st.coalition))
                 IN [st EXCEPT !.air_to_air_kills = IF kills > 0 THEN kills ELSE 0]
            ELSE st
    ELSE st

BasicCalculateKillStatistics(stats, removed) ==
    [k \in 1..Len(stats) |-> BasicKillStatistics(stats, stats[k], removed)]

\* generate_report, lines 219-242
BasicCoalitionBreakdown(stats, coalition) ==
    LET own == SelectSeq(stats, LAMBDA st : st.coalition = coalition)
    IN [pilots |-> Len(own),
        missiles |-> SumSeq([k \in 1..Len(own) |-> own[k].missiles_fired]),
        kills |-> SumSeq([k \in 1..Len(own) |-> own[k].air_to_air_kills]),
        deaths |-> SumSeq([k \in 1..Len(own) |-> own[k].deaths])]

BasicGenerateReport(stats) ==
    [total_pilots |-> Len(stats),
     total_missiles |-> SumSeq([k \in 1..Len(stats) |-> stats[k].missiles_fired]),
     total_kills |-> SumSeq([k \in 1..Len(stats) |-> stats[k].air_to_air_kills]),
     total_deaths |-> SumSeq([k \in 1..Len(stats) |-> stats[k].deaths]),
     coalitions |-> [c \in { stats[k].coalition : k \in 1..Len(stats) } |->
                        BasicCoalitionBreakdown(stats, c)]]

\* export_to_json, lines 256-260 (the timestamp is left out)
BasicExportDocument(stats) ==
    [mission_info |-> "global_json",
     pilot_statistics |-> stats]

----------------------------------------------------------------------------
(* The run of main().                                                      *)

\* The sessions the improved analyzer is run on.
\* Up to MaxAircraft aircraft, the first n_alive of them still alive at the
\* end of the session and the others removed, and the removed munitions.
Session(aircraft, n_alive, munitions) ==
    [alive |-> WithIds(SubSeq(aircraft, 1, n_alive), 0),
     removed |-> WithIds(SubSeq(aircraft, n_alive + 1, Len(aircraft)) \o munitions,
                         n_alive)]

\* extract_combat_logs is not called in a run of an analyzer.
ExtractIdle ==
    /\ input_file = <<>>
    /\ extract_pc = "idle"
    /\ total_lines = 0
    /\ combat_lines = 0
    /\ combat_logs = <<>>
    /\ output_file = <<>>
    /\ returned = "none"

Init ==
    /\ analyzer = "improved"
    /\ alive_objects = <<>>
    /\ removed_objects = <<>>
    /\ pc = "start"
    /\ pilot_stats = <<>>
    /\ attribution = <<>>
    /\ report = <<>>
    /\ exported = <<>>
    /\ exit_code = -1
    /\ ExtractIdle

\* load_acmi succeeds: pyacmi holds the session read from the file
load_acmi ==
    /\ pc = "start"
    /\ analyzer = "improved"
    /\ \E aircraft \in SeqsUpTo(AircraftCatalog, MaxAircraft) :
       \E n_alive \in 0..Len(aircraft) :
       \E munitions \in MissileLists :
         LET s == Session(aircraft, n_alive, munitions)
         IN /\ alive_objects' = s.alive
            /\ removed_objects' = s.removed
    /\ pc' = "loaded"
    /\ UNCHANGED <<analyzer, pilot_stats, attribution, report, exported, exit_code>>
    /\ UNCHANGED extract_vars

\* load_acmi fails: pyacmi raised, run_analysis returns False
load_acmi_failed ==
    /\ pc = "start"
    /\ pc' = "failed"
    /\ UNCHANGED <<analyzer, alive_objects, removed_objects, pilot_stats,
                   attribution, report, exported, exit_code>>
    /\ UNCHANGED extract_vars

\* (a variant that prints the failure and returns, leaving status 0)
exit_failure_status_0 ==
    /\ pc = "failed"
    /\ pc' = "done"
    /\ exit_code' = 0
    /\ UNCHANGED <<analyzer, alive_objects, removed_objects, pilot_stats,
                   attribution, report, exported>>
    /\ UNCHANGED extract_vars

\* main, lines 378-380: "Analysis failed!", sys.exit(1)
exit_failure ==
    /\ pc = "failed"
    /\ pc' = "done"
    /\ exit_code' = 1
    /\ UNCHANGED <<analyzer, alive_objects, removed_objects, pilot_stats,
                   attribution, report, exported>>
    /\ UNCHANGED extract_vars

analyze_pilots ==
    /\ pc = "loaded"
    /\ analyzer = "improved"
    /\ pilot_stats' = AnalyzePilotsLoop(pilot_stats, all_aircraft, alive_aircraft)
    /\ pc' = "pilots"
    /\ UNCHANGED <<analyzer, alive_objects, removed_objects, attribution,
                   report, exported, exit_code>>
    /\ UNCHANGED extract_vars

estimate_missile_usage ==
    /\ pc = "pilots"
    /\ analyzer = "improved"
    /\ LET out == EstimateMissileUsage(pilot_stats, aa_missiles)
       IN /\ pilot_stats' = out.stats
          /\ attribution' = out.attribution
    /\ pc' = "missiles"
    /\ UNCHANGED <<analyzer, alive_objects, removed_objects, report, exported,
                   exit_code>>
    /\ UNCHANGED extract_vars

calculate_kill_estimates ==
    /\ pc = "missiles"
    /\ analyzer = "improved"
    /\ pilot_stats' = CalculateKillEstimates(pilot_stats, removed_aircraft)
    /\ pc' = "kills"
    /\ UNCHANGED <<analyzer, alive_objects, removed_objects, attribution,
                   report, exported, exit_code>>
    /\ UNCHANGED extract_vars

generate_report ==
    /\ pc = "kills"
    /\ analyzer = "improved"
    /\ report' = GenerateReport(pilot_stats)
    /\ pc' = "reported"
    /\ UNCHANGED <<analyzer, alive_objects, removed_objects, pilot_stats,
                   attribution, exported, exit_code>>
    /\ UNCHANGED extract_vars

\* main, lines 372-377: run_analysis returned True; args.output is given
\* or not; the process then ends with status 0
main_finish ==
    /\ pc = "reported"
    /\ analyzer = "improved"
    /\ \E output \in BOOLEAN :
         exported' = IF output THEN ExportDocument(pilot_stats) ELSE exported
    /\ pc' = "done"
    /\ exit_code' = 0
    /\ UNCHANGED <<analyzer, alive_objects, removed_objects, pilot_stats,
                   attribution, report>>
    /\ UNCHANGED extract_vars

\* The same load_acmi, on a session whose munitions carry a Parent; the
\* munitions follow the removed aircraft in removed_objects.
load_acmi_linked ==
    /\ pc = "start"
    /\ \E aircraft \in SeqsUpTo(AircraftCatalog, MaxLinkAircraft) :
       \E n_alive \in 0..Len(aircraft) :
       \E munitions \in LinkedLists(aircraft) :
         LET s == Session(aircraft, n_alive, munitions)
         IN /\ alive_objects' = s.alive
            /\ removed_objects' = s.removed
    /\ pc' = "loaded"
    /\ UNCHANGED <<analyzer, pilot_stats, attribution, report, exported, exit_code>>
    /\ UNCHANGED extract_vars

\* CombatAnalyzer.run_analysis, lines 272-273
basic_analyze_aircraft ==
    /\ pc = "loaded"
    /\ analyzer = "basic"
    /\ pilot_stats' = BasicAnalyzeAircraft(pilot_stats, basic_aircraft,
                                           removed_objects)
    /\ pc' = "pilots"
    /\ UNCHANGED <<analyzer, alive_objects, removed_objects, attribution,
                   report, exported, exit_code>>
    /\ UNCHANGED extract_vars

basic_analyze_missiles ==
    /\ pc = "pilots"
    /\ analyzer = "basic"
    /\ pilot_stats' = BasicAnalyzeMissiles(pilot_stats, basic_missiles,
                                           basic_all_objects)
    /\ pc' = "missiles"
    /\ UNCHANGED <<analyzer, alive_objects, removed_objects, attribution,
                   report, exported, exit_code>>
    /\ UNCHANGED extract_vars

basic_calculate_kill_statistics ==
    /\ pc = "missiles"
    /\ analyzer = "basic"
    /\ pilot_stats' = BasicCalculateKillStatistics(pilot_stats, removed_aircraft)
    /\ pc' = "kills"
    /\ UNCHANGED <<analyzer, alive_objects, removed_objects, attribution,
                   report, exported, exit_code>>
    /\ UNCHANGED extract_vars

basic_generate_report ==
    /\ pc = "kills"
    /\ analyzer = "basic"
    /\ report' = BasicGenerateReport(pilot_stats)
    /\ pc' = "reported"
    /\ UNCHANGED <<analyzer, alive_objects, removed_objects, pilot_stats,
                   attribution, exported, exit_code>>
    /\ UNCHANGED extract_vars

\* CombatAnalyzer's main, lines 289-292
basic_main_finish ==
    /\ pc = "reported"
    /\ analyzer = "basic"
    /\ \E output \in BOOLEAN :
         exported' = IF output THEN BasicExportDocument(pilot_stats) ELSE exported
    /\ pc' = "done"
    /\ exit_code' = 0
    /\ UNCHANGED <<analyzer, alive_objects, removed_objects, pilot_stats,
                   attribution, report>>
    /\ UNCHANGED extract_vars

Next ==
    \/ load_acmi
    \/ load_acmi_failed
    \/ exit_failure
    \/ analyze_pilots
    \/ estimate_missile_usage
    \/ calculate_kill_estimates
    \/ generate_report
    \/ main_finish

Spec == Init /\ [][Next]_vars

\* Either script, run on sessions whose munitions carry launcher references.
InitLinks ==
    /\ analyzer \in {"improved", "basic"}
    /\ alive_objects = <<>>
    /\ removed_objects = <<>>
    /\ pc = "start"
    /\ pilot_stats = <<>>
    /\ attribution = <<>>
    /\ report = <<>>
    /\ exported = <<>>
    /\ exit_code = -1
    /\ ExtractIdle

NextLinks ==
    \/ load_acmi_linked
    \/ load_acmi_failed
    \/ exit_failure
    \/ analyze_pilots
    \/ estimate_missile_usage
    \/ calculate_kill_estimates
    \/ generate_report
    \/ main_finish
    \/ basic_analyze_aircraft
    \/ basic_analyze_missiles
    \/ basic_calculate_kill_statistics
    \/ basic_generate_report
    \/ basic_main_finish

SpecLinks == InitLinks /\ [][NextLinks]_vars

\* (a variant of the second call that looks a pilot up by subscript in the
\* defaultdict, which creates the entry when the name is missing)
generate_report_again_subscript ==
    /\ pc = "reported"
    /\ analyzer = "improved"
    /\ pilot_stats' = Append(pilot_stats,
                              [pilot_name |-> "", aircraft_type |-> <<>>,
                               coalition |-> "", country |-> "", group |-> "",
                               missiles_fired |-> 0, air_to_air_kills |-> 0,
                               deaths |-> 0, survived |-> FALSE,
                               missile_types_used |-> <<>>,
                               estimated_hit_rate |-> 0])
    /\ report' = GenerateReport(pilot_stats')
    /\ pc' = "reported_again"
    /\ UNCHANGED <<analyzer, alive_objects, removed_objects, attribution,
                   exported, exit_code>>
    /\ UNCHANGED extract_vars

\* generate_report called a second time on the same analyzer object, with
\* nothing run in between: it reads pilot_stats through items() and
\* values() only and prints the summary it recomputes.
generate_report_again ==
    /\ pc = "reported"
    /\ analyzer = "improved"
    /\ report' = GenerateReport(pilot_stats)
    /\ pc' = "reported_again"
    /\ UNCHANGED <<analyzer, alive_objects, removed_objects, pilot_stats,
                   attribution, exported, exit_code>>
    /\ UNCHANGED extract_vars

\* The improved analyzer's run, with the report generated once or twice.
NextReport ==
    \/ load_acmi
    \/ load_acmi_failed
    \/ exit_failure
    \/ analyze_pilots
    \/ estimate_missile_usage
    \/ calculate_kill_estimates
    \/ generate_report
    \/ generate_report_again
    \/ main_finish

SpecReport == Init /\ [][NextReport]_vars

\* Sessions for the kill estimates: a line-up of aircraft, the first n_alive
\* of them alive at the end, and for each aircraft the munitions it launched
\* (up to MaxLaunches, of its own side and coalition, Parent its object id),
\* all removed by the end of the session.
KillLineups ==
    { <<Plane("A", F16C, "Allies"), Plane("D", MiG21Bis, "Enemies")>>,
      <<Plane("D", MiG21Bis, "Enemies"), Plane("A", F16C, "Allies"),
        Plane("B", F16C, "Allies")>>,
      <<Plane("A", F16C, "Allies"), Plane("B", F16C, "Allies"),
        Plane("D", MiG21Bis, "Enemies")>>,
      <<Plane("A", F16C, "Allies"), Plane("B", F16C, "Allies"),
        Plane("D", MiG21Bis, "Enemies"), Plane("D", MiG21Bis, "Enemies")>>,
      <<Plane("A", F16C, "Allies"), Plane("B", MiG21Bis, "Allies"),
        Plane("D", MiG21Bis, "Enemies"), Plane("", F16C, "Enemies")>> }

WeaponOf(plane) == IF AnyIn(western_aircraft, plane.Name) THEN AIM9M ELSE R73

RECURSIVE Launched(_, _, _)
Launched(aircraft, launches, i) ==
    IF i > Len(aircraft) THEN <<>>
    ELSE Repeat(Missile(WeaponOf(aircraft[i]), aircraft[i].Coalition, i),
                launches[i])
         \o Launched(aircraft, launches, i + 1)

\* Either analyzer, taken up where run_analysis has loaded such a session
\* and has analysed the aircraft and the munitions, before the kills are
\* estimated.
InitKills ==
    /\ analyzer \in {"improved", "basic"}
    /\ \E aircraft \in KillLineups :
       \E n_alive \in 0..Len(aircraft) :
       \E launches \in [1..Len(aircraft) -> 0..MaxLaunches] :
         LET s == Session(aircraft, n_alive, Launched(aircraft, launches, 1))
         IN /\ alive_objects = s.alive
            /\ removed_objects = s.removed
    /\ pc = "missiles"
    /\ IF analyzer = "improved"
       THEN LET out == EstimateMissileUsage(
                           AnalyzePilotsLoop(<<>>, all_aircraft, alive_aircraft),
                           aa_missiles)
            IN /\ pilot_stats = out.stats
               /\ attribution = out.attribution
       ELSE /\ pilot_stats = BasicAnalyzeMissiles(
                                 BasicAnalyzeAircraft(<<>>, basic_aircraft,
                                                      removed_objects),
                                 basic_missiles, basic_all_objects)
            /\ attribution = <<>>
    /\ report = <<>>
    /\ exported = <<>>
    /\ exit_code = -1
    /\ ExtractIdle

NextKills ==
    \/ calculate_kill_estimates
    \/ basic_calculate_kill_statistics

SpecKills == InitKills /\ [][NextKills]_vars

----------------------------------------------------------------------------
(* extract_combat_logs.py                                                  *)
(*                                                                         *)
(* A line is the sequence of its characters, line terminator included,    *)
(* with each occurrence of the marker 'COMBAT_LOG:' taken as one element:  *)
(* the marker has no proper prefix that is also its suffix, so its         *)
(* occurrences in a line never overlap.                                    *)

MARKER == "COMBAT_LOG:"

\* The characters str.strip() removes, of those that occur in the lines.
Whitespace == {" ", "\n"}

\* The lines an input file is made of.
LogLines ==
    { <<"x", "\n">>,
      <<"\n">>,
      <<MARKER, "a", "\n">>,
      <<MARKER, " ", "a", " ", "\n">>,
      <<"x", " ", MARKER, "a", " ", "b", "\n">>,
      <<MARKER, "a", MARKER, "b", "\n">>,
      <<MARKER, " ", "\n">>,
      <<"x", MARKER, "b">> }

\* 'COMBAT_LOG:' in line
in_line(line) == \E k \in 1..Len(line) : line[k] = MARKER

\* (a variant that splits at the last occurrence, as rsplit does)
split_marker_last(line) ==
    IF ~in_line(line) THEN <<line>>
    ELSE LET at == CHOOSE k \in 1..Len(line) :
                       line[k] = MARKER /\ \A j \in (k + 1)..Len(line) : line[j] # MARKER
         IN <<SubSeq(line, 1, at - 1), SubSeq(line, at + 1, Len(line))>>

\* line.split('COMBAT_LOG:', 1)
split_marker(line) ==
    IF ~in_line(line) THEN <<line>>
    ELSE LET at == CHOOSE k \in 1..Len(line) :
                       line[k] = MARKER /\ \A j \in 1..(k - 1) : line[j] # MARKER
         IN <<SubSeq(line, 1, at - 1), SubSeq(line, at + 1, Len(line))>>

\* str.strip()
RECURSIVE lstrip(_)
lstrip(s) ==
    IF s # <<>> /\ Head(s) \in Whitespace THEN lstrip(Tail(s)) ELSE s

RECURSIVE rstrip(_)
rstrip(s) ==
    IF s # <<>> /\ s[Len(s)] \in Whitespace
    THEN rstrip(SubSeq(s, 1, Len(s) - 1)) ELSE s

strip(s) == rstrip(lstrip(s))

\* extract_combat_logs is called on a file of up to MaxLines lines.
InitExtract ==
    /\ analyzer = "improved"
    /\ alive_objects = <<>>
    /\ removed_objects = <<>>
    /\ pc = "start"
    /\ pilot_stats = <<>>
    /\ attribution = <<>>
    /\ report = <<>>
    /\ exported = <<>>
    /\ exit_code = -1
    /\ input_file \in SeqsUpTo(LogLines, MaxLines)
    /\ extract_pc = "start"
    /\ total_lines = 0
    /\ combat_lines = 0
    /\ combat_logs = <<>>
    /\ output_file = <<>>
    /\ returned = "none"

\* lines 49 and 82-90: open(input_file) raises, the handler returns False
extract_open_failed ==
    /\ extract_pc = "start"
    /\ extract_pc' = "done"
    /\ returned' = "False"
    /\ UNCHANGED <<input_file, total_lines, combat_lines, combat_logs, output_file>>
    /\ UNCHANGED analysis_vars

\* line 49: the input file is open
extract_open ==
    /\ extract_pc = "start"
    /\ extract_pc' = "reading"
    /\ UNCHANGED <<input_file, total_lines, combat_lines, combat_logs,
                   output_file, returned>>
    /\ UNCHANGED analysis_vars

\* lines 50-58: one iteration of `for line in f`
extract_read_line ==
    /\ extract_pc = "reading"
    /\ total_lines < Len(input_file)
    /\ LET line == input_file[total_lines + 1]
           combat_part == split_marker(line)
       IN /\ total_lines' = total_lines + 1
          /\ IF in_line(line)
             THEN /\ combat_lines' = combat_lines + 1
                  /\ combat_logs' = IF Len(combat_part) > 1
                                    THEN Append(combat_logs, strip(combat_part[2]))
                                    ELSE combat_logs
             ELSE UNCHANGED <<combat_lines, combat_logs>>
    /\ UNCHANGED <<input_file, extract_pc, output_file, returned>>
    /\ UNCHANGED analysis_vars

\* lines 62-77: combat_logs is not empty; the header and one line per entry
\* are written, True is returned
extract_write ==
    /\ extract_pc = "reading"
    /\ total_lines = Len(input_file)
    /\ combat_logs # <<>>
    /\ output_file' = [total_events |-> Len(combat_logs),
                       entries |-> [k \in 1..Len(combat_logs) |->
                                       combat_logs[k] \o <<"\n">>]]
    /\ extract_pc' = "done"
    /\ returned' = "True"
    /\ UNCHANGED <<input_file, total_lines, combat_lines, combat_logs>>
    /\ UNCHANGED analysis_vars

\* lines 64 and 85-90: open(output_file, 'w') raises, the handler returns
\* False
extract_write_failed ==
    /\ extract_pc = "reading"
    /\ total_lines = Len(input_file)
    /\ combat_logs # <<>>
    /\ extract_pc' = "done"
    /\ returned' = "False"
    /\ UNCHANGED <<input_file, total_lines, combat_lines, combat_logs, output_file>>
    /\ UNCHANGED analysis_vars

\* lines 78-80: no entry was collected, False is returned
extract_no_logs ==
    /\ extract_pc = "reading"
    /\ total_lines = Len(input_file)
    /\ combat_logs = <<>>
    /\ extract_pc' = "done"
    /\ returned' = "False"
    /\ UNCHANGED <<input_file, total_lines, combat_lines, combat_logs, output_file>>
    /\ UNCHANGED analysis_vars

NextExtract ==
    \/ extract_open_failed
    \/ extract_open
    \/ extract_read_line
    \/ extract_write
    \/ extract_write_failed
    \/ extract_no_logs

SpecExtract == InitExtract /\ [][NextExtract]_vars

TypeOK ==
    /\ analyzer \in {"improved", "basic"}
    /\ pc \in {"start", "failed", "loaded", "pilots", "missiles", "kills",
               "reported", "reported_again", "done"}
    /\ exit_code \in {-1, 0, 1}
    /\ extract_pc \in {"idle", "start", "reading", "done"}
    /\ returned \in {"none", "True", "False"}

----------------------------------------------------------------------------
(* Properties.                                                             *)

\* Read-outs of the state the properties are stated on.
Pilots == PilotNamesOf(pilot_stats)

Fired(p) == StatsOf(pilot_stats, p).missiles_fired

Kills(p) == StatsOf(pilot_stats, p).air_to_air_kills

CoalitionOf(p) == StatsOf(pilot_stats, p).coalition

AllObjects == alive_objects \o removed_objects

\* How many objects of a list satisfy a condition.
HowMany(objs, Cond(_)) == Cardinality({ k \in 1..Len(objs) : Cond(objs[k]) })

LaunchesDone == pc \in {"missiles", "kills", "reported", "done"} /\ exit_code # 1

KillsDone == pc \in {"kills", "reported", "done"} /\ exit_code # 1

\* What attribution entry e handed to pilot p.
CreditIn(e, p) ==
    SumSeq([k \in 1..Len(e.pilots) |-> IF e.pilots[k] = p THEN e.credits[k] ELSE 0])

\* The position at which pilot p is first listed among the aircraft, alive
\* aircraft first and removed aircraft after them.
FirstListed(p) ==
    CHOOSE k \in 1..Len(all_aircraft) :
        /\ all_aircraft[k].Pilot = p
        /\ \A j \in 1..(k - 1) : all_aircraft[j].Pilot # p

\* Pilot names in lexicographic order.
Alphabet == <<"A", "B", "C", "D", "E", "F">>

Letter(p) == CHOOSE k \in 1..Len(Alphabet) : Alphabet[k] = p

\* How many pilots of the sequence ps come before p lexicographically.
LexRank(ps, p) == Cardinality({ k \in 1..Len(ps) : Letter(ps[k]) < Letter(p) })

\* C1 - Apportionment exactness.  Every apportioned group has K >= 1 capable
\* pilots and the N air-to-air munitions of its coalition and designator;
\* the units handed to the K pilots sum to exactly N and no two pilots
\* differ by more than one; and a pilot's missiles_fired is exactly the sum
\* of what the groups handed to that pilot.
C1_ApportionmentExact ==
    LaunchesDone =>
        /\ \A k \in 1..Len(attribution) :
             LET e == attribution[k]
             IN /\ Len(e.pilots) >= 1
                /\ Len(e.credits) = Len(e.pilots)
                /\ e.count = HowMany(removed_objects, LAMBDA o :
                       /\ is_missile(o)
                       /\ o.Coalition = e.coalition
                       /\ o.Name = e.missile_type)
                /\ SumSeq(e.credits) = e.count
                /\ \A i, j \in 1..Len(e.credits) :
                       e.credits[i] - e.credits[j] <= 1
        /\ \A p \in Pilots :
             Fired(p) = SumSeq([k \in 1..Len(attribution) |->
                                   CreditIn(attribution[k], p)])

\* A group of 5 munitions shared by 2 capable pilots, 3 and 2.
C1_Witness ==
    /\ LaunchesDone
    /\ \E k \in 1..Len(attribution) :
         /\ attribution[k].count = 5
         /\ attribution[k].credits = <<3, 2>>

\* C2 as stated - Remainder ordering by pilot name: every capable pilot of a
\* group gets N div K, and one more exactly when fewer than N mod K capable
\* pilots precede it in lexicographic order, whatever the order of ingestion.
C2_LexicographicRemainder ==
    LaunchesDone =>
        \A k \in 1..Len(attribution) :
            LET e == attribution[k]
                K == Len(e.pilots)
            IN \A i \in 1..K :
                 e.credits[i] = (e.count \div K)
                     + (IF LexRank(e.pilots, e.pilots[i]) < e.count % K
                        THEN 1 ELSE 0)

\* C2 as amended - Remainder ordering by first listing: the capable pilots
\* of a group are served in the order in which they are first listed among
\* the aircraft (alive aircraft first, then removed aircraft); every one
\* gets N div K and the first N mod K in that order get one more.
C2_FirstListedRemainder ==
    LaunchesDone =>
        \A k \in 1..Len(attribution) :
            LET e == attribution[k]
                K == Len(e.pilots)
            IN /\ \A i, j \in 1..K :
                     i < j => FirstListed(e.pilots[i]) < FirstListed(e.pilots[j])
               /\ \A i \in 1..K :
                     e.credits[i] = (e.count \div K)
                         + (IF i <= e.count % K THEN 1 ELSE 0)

\* B is listed before A, both are capable, and B gets the extra unit.
C2_Witness ==
    /\ LaunchesDone
    /\ \E k \in 1..Len(attribution) :
         /\ attribution[k].pilots = <<"B", "A">>
         /\ attribution[k].count = 5
         /\ attribution[k].credits = <<3, 2>>

\* Removed aircraft of the coalitions other than c: the losses of the side
\* opposing c.
OpposingLosses(c) ==
    HowMany(removed_objects, LAMBDA o : is_plane(o) /\ o.Coalition # c)

\* missiles_fired summed over the pilots of coalition c.
CoalitionTotal(c) ==
    SumSeq([k \in 1..Len(pilot_stats) |->
               IF pilot_stats[k].coalition = c
               THEN pilot_stats[k].missiles_fired ELSE 0])

\* C3 - Kill bound invariant.  Once kill attribution is complete every pilot
\* has 0 <= air_to_air_kills <= missiles_fired; a pilot who fired has
\* air_to_air_kills <= floor(enemyLosses * missiles_fired / coalitionTotal);
\* and when the opposing side lost no aircraft the pilot has no kills.
C3_KillBound ==
    KillsDone =>
        \A p \in Pilots :
            /\ 0 <= Kills(p)
            /\ Kills(p) <= Fired(p)
            /\ Fired(p) > 0 =>
                 Kills(p) <= (OpposingLosses(CoalitionOf(p)) * Fired(p))
                                 \div CoalitionTotal(CoalitionOf(p))
            /\ OpposingLosses(CoalitionOf(p)) = 0 => Kills(p) = 0

\* A pilot whose kills are held down by the enemy's losses, not by the
\* hit rate.
C3_Witness ==
    /\ KillsDone
    /\ \E p \in Pilots :
         /\ Kills(p) >= 1
         /\ Kills(p) = (OpposingLosses(CoalitionOf(p)) * Fired(p))
                           \div CoalitionTotal(CoalitionOf(p))
         /\ Kills(p) < (3 * Fired(p)) \div 10

\* The coalitions of the session's aircraft.
SessionCoalitions ==
    { all_aircraft[k].Coalition : k \in 1..Len(all_aircraft) }

\* C4 as stated - Kill estimate value.  Once kill attribution is complete, a
\* pilot who fired has air_to_air_kills = max(0, min(floor(fired * 3/10),
\* floor(enemyLosses * fired / coalitionTotal))), whatever the coalitions are
\* called; stated on the sessions with at most two coalitions, where the
\* enemy coalition is the other one.
C4_KillEstimateValue ==
    (KillsDone /\ Cardinality(SessionCoalitions) <= 2) =>
        \A p \in Pilots :
            Fired(p) > 0 =>
                LET boundA == (Fired(p) * 3) \div 10
                    boundB == (OpposingLosses(CoalitionOf(p)) * Fired(p))
                                  \div CoalitionTotal(CoalitionOf(p))
                    least == IF boundA <= boundB THEN boundA ELSE boundB
                IN Kills(p) = IF least > 0 THEN least ELSE 0

\* Every pilot name a session can hold.
PilotUniverse == { a.Pilot : a \in AircraftCatalog } \ {""}

Deaths(p) == IF HasPilot(pilot_stats, p) THEN StatsOf(pilot_stats, p).deaths ELSE 0

PilotsDone == pc \in {"pilots", "missiles", "kills", "reported", "done"} /\ exit_code # 1

\* C5 - Death ground truth.  After analysis, under either analyzer, every
\* pilot's deaths is the number of aircraft records in the removed set that
\* carry the pilot's name (none for a pilot the session does not hold).
C5_DeathGroundTruth ==
    PilotsDone =>
        \A p \in PilotUniverse :
            Deaths(p) = HowMany(removed_objects, LAMBDA o :
                            is_plane(o) /\ o.Pilot = p)

\* A pilot with a removed aircraft and an alive one, and a pilot with two
\* removed aircraft, are both reached; this is the first.
C5_Witness ==
    /\ pc = "done"
    /\ \E p \in Pilots :
         /\ Deaths(p) = 1
         /\ \E k \in 1..Len(alive_objects) :
              is_plane(alive_objects[k]) /\ alive_objects[k].Pilot = p

\* A munition no air-to-air pattern matches.
Unclassified(o) == is_missile(o) /\ ~is_air_to_air_missile(o)

\* A session-level count the summary reports under the given name; nothing
\* reported counts as zero.
Tallied(name) == IF name \in DOMAIN report THEN report[name] ELSE 0

TotalFired == SumSeq([k \in 1..Len(pilot_stats) |-> pilot_stats[k].missiles_fired])

Reported == pc \in {"reported", "done"} /\ exit_code # 1

\* C6 as stated - Unclassified munitions are tallied, not dropped: they are
\* credited to no pilot (the pilots' missiles_fired sum to at most the
\* number of classified munitions), and the session-level unattributed
\* count holds one for each of them.
C6_UnclassifiedTallied ==
    Reported =>
        /\ TotalFired <= HowMany(AllObjects, LAMBDA o :
                             is_missile(o) /\ ~Unclassified(o))
        /\ Tallied("unattributed") >= HowMany(AllObjects, Unclassified)

\* C7 as stated - Launch conservation: a group with no eligible pilot is
\* counted in the session-level unattributed total, so that the pilots'
\* missiles_fired plus that total is the number of munitions; stated on the
\* sessions all of whose munitions are classified.
C7_LaunchConservation ==
    (Reported /\ HowMany(AllObjects, Unclassified) = 0) =>
        TotalFired + Tallied("unattributed") = HowMany(AllObjects, is_missile)

\* The pilot a munition's Parent resolves to: the pilot of the aircraft
\* record, alive or removed, with that id ("" when there is none).
LauncherOf(o) ==
    IF \E k \in 1..Len(AllObjects) :
           is_plane(AllObjects[k]) /\ AllObjects[k].ID = o.Parent
    THEN (CHOOSE a \in { AllObjects[k] : k \in 1..Len(AllObjects) } :
              is_plane(a) /\ a.ID = o.Parent).Pilot
    ELSE ""

\* The air-to-air munitions whose Parent resolves to an aircraft of pilot p.
DirectLaunches(p) ==
    HowMany(AllObjects, LAMBDA o :
        /\ is_missile(o)
        /\ is_air_to_air_missile(o)
        /\ o.Parent # 0
        /\ LauncherOf(o) = p)

\* Every air-to-air munition of the session has a Parent that resolves to
\* an aircraft with a pilot.
AllLaunchesDirect ==
    \A k \in 1..Len(AllObjects) :
        LET o == AllObjects[k]
        IN (is_missile(o) /\ is_air_to_air_missile(o)) =>
               (o.Parent # 0 /\ LauncherOf(o) # "")

\* C8 as stated - Direct launch attribution, under either analyzer: each
\* air-to-air munition whose Parent resolves to a piloted aircraft adds one
\* to that pilot's missiles_fired and nothing to any other pilot's; stated
\* on the sessions where every air-to-air munition has such a Parent, so
\* that nothing is left to apportion.
C8_DirectAttribution ==
    (LaunchesDone /\ AllLaunchesDirect) =>
        \A p \in Pilots : Fired(p) = DirectLaunches(p)

\* C8 as amended - Direct launch attribution in CombatAnalyzer
\* (acmi_analyzer.py): after analyze_missiles every pilot's missiles_fired
\* is the number of air-to-air munitions, alive or removed, whose Parent
\* resolves to an aircraft of that pilot.  ImprovedCombatAnalyzer never
\* reads Parent.
C8_DirectAttributionBasic ==
    (LaunchesDone /\ analyzer = "basic") =>
        \A p \in Pilots : Fired(p) = DirectLaunches(p)

\* CombatAnalyzer credits two launches, one to each of two pilots.
C8_Witness ==
    /\ LaunchesDone
    /\ analyzer = "basic"
    /\ \E p, q \in Pilots :
         /\ p # q
         /\ Fired(p) = 1 /\ DirectLaunches(p) = 1
         /\ Fired(q) = 1 /\ DirectLaunches(q) = 1

\* C9 - Survival flag.  After analysis, a pilot's survived is true exactly
\* when an aircraft record with the pilot's name is in the alive set.
C9_SurvivalFlag ==
    PilotsDone =>
        \A p \in Pilots :
            StatsOf(pilot_stats, p).survived
                <=> \E k \in 1..Len(alive_objects) :
                        is_plane(alive_objects[k]) /\ alive_objects[k].Pilot = p

\* A pilot who survived and also lost an aircraft.
C9_Witness ==
    /\ pc = "done"
    /\ \E p \in Pilots :
         StatsOf(pilot_stats, p).survived /\ StatsOf(pilot_stats, p).deaths > 0

NoResults == pilot_stats = <<>> /\ attribution = <<>> /\ report = <<>> /\ exported = <<>>

\* C10 - No partial results on a fatal error, under either analyzer.  While
\* a failed load is pending and after exit with status 1 there is no
\* analysis result, no report and no export; an export exists only in a
\* finished run with status 0, after the report, and holds the analysed
\* statistics; status 0 is only set by the step that follows the report; a
\* failed load is followed by exit with status 1.
C10_NoPartialResults ==
    /\ []((pc = "failed" \/ exit_code = 1) => NoResults)
    /\ [](exported # <<>> =>
            /\ pc = "done" /\ exit_code = 0 /\ report # <<>>
            /\ exported.pilot_statistics = pilot_stats)
    /\ [](exit_code = 0 => (pc = "done" /\ report # <<>>))
    /\ [][(pc = "failed" => (pc' = "done" /\ exit_code' = 1))
          /\ (exit_code' = 0 => pc = "reported")]_vars

\* A run that failed to load has exited with status 1.
C10_Witness == pc = "done" /\ exit_code = 1 /\ NoResults

FamilyOf(name) ==
    LET hits == { k \in 1..Len(air_to_air_missiles) :
                    Contains(air_to_air_missiles[k], name) }
    IN IF hits = {} THEN "Unclassified"
       ELSE missile_family_labels[CHOOSE k \in hits : \A j \in hits : k <= j]

\* The place of x in seq, 0 when absent.
PlaceIn(seq, x) ==
    IF \E k \in 1..Len(seq) : seq[k] = x
    THEN CHOOSE k \in 1..Len(seq) : seq[k] = x /\ \A j \in 1..(k - 1) : seq[j] # x
    ELSE 0

\* What pilot p is due when the munitions of p's coalition are pooled by
\* family and each pool is apportioned once over its eligible pilots, in the
\* order the pilots are listed.
PooledShare(p) ==
    LET st == StatsOf(pilot_stats, p)
        ms == coalition_missiles(aa_missiles, st.coalition)
        pilots == coalition_pilots(pilot_stats, st.coalition)
        families == FirstSeen([k \in 1..Len(ms) |-> FamilyOf(ms[k].Name)])
        share(f) ==
            LET pool == SelectSeq(ms, LAMBDA m : FamilyOf(m.Name) = f)
                eligible == capable_pilots(pilot_stats, pilots, pool[1].Name)
                place == PlaceIn(eligible, p)
            IN IF place = 0 THEN 0
               ELSE (Len(pool) \div Len(eligible))
                    + (IF place - 1 < Len(pool) % Len(eligible) THEN 1 ELSE 0)
    IN SumSeq([k \in 1..Len(families) |-> share(families[k])])

\* C12 as stated - Apportionment groups are (coalition, family).  After
\* launch attribution every pilot's missiles_fired is the pilot's share of
\* the pools formed per coalition and family, each pool apportioned once
\* (two eligible pilots, one AIM-9L and one AIM-9M: one unit each).
C12_FamilyGroups ==
    LaunchesDone => \A p \in Pilots : Fired(p) = PooledShare(p)

\* The labels recorded for pilot p.
TypesUsed(p) == StatsOf(pilot_stats, p).missile_types_used

\* C13 as stated - missile_types_used records only credited pilots.  After
\* launch attribution a label is recorded for pilot p exactly when some
\* apportioned group of that label credited p at least one munition, and no
\* label is recorded twice.
C13_OnlyCreditedLabels ==
    LaunchesDone =>
        \A p \in Pilots :
            /\ \A k \in 1..Len(TypesUsed(p)) :
                   \E j \in 1..Len(attribution) :
                       /\ attribution[j].missile_type = TypesUsed(p)[k]
                       /\ CreditIn(attribution[j], p) >= 1
            /\ \A j \in 1..Len(attribution) :
                   CreditIn(attribution[j], p) >= 1
                       => InList(attribution[j].missile_type, TypesUsed(p))
            /\ \A k, l \in 1..Len(TypesUsed(p)) :
                   TypesUsed(p)[k] = TypesUsed(p)[l] => k = l

\* A platform and a munition designator of the same side.
SameSide(aircraft_type, missile_type) ==
    \/ AnyIn(western_aircraft, aircraft_type) /\ AnyIn(western_missiles, missile_type)
    \/ AnyIn(eastern_aircraft, aircraft_type) /\ AnyIn(eastern_missiles, missile_type)

\* The air-to-air munitions pilot p is eligible for.
EligibleMunitions(p) ==
    LET st == StatsOf(pilot_stats, p)
        own == SelectSeq(removed_objects, LAMBDA m :
                   is_missile(m) /\ m.Coalition = st.coalition)
        designators == { own[k].Name : k \in 1..Len(own) }
        eligible == { n \in designators :
                        /\ AnyIn(air_to_air_missiles, n)
                        /\ SameSide(st.aircraft_type, n) }
    IN SelectSeq(own, LAMBDA m : m.Name \in eligible)

\* C14 - Eligibility gating.  After launch attribution every group that
\* credited a pilot is of the pilot's own coalition and of a designator
\* compatible with the pilot's platform, a pilot's missiles_fired is at most
\* the number of munitions the pilot is eligible for, and a pilot whose
\* aircraft is not a listed fighter has missiles_fired 0 and
\* air_to_air_kills 0.
C14_EligibilityGating ==
    LaunchesDone =>
        \A p \in Pilots :
            /\ \A j \in 1..Len(attribution) :
                   CreditIn(attribution[j], p) >= 1 =>
                       /\ attribution[j].coalition = CoalitionOf(p)
                       /\ SameSide(StatsOf(pilot_stats, p).aircraft_type,
                                   attribution[j].missile_type)
            /\ Fired(p) = 0 \/ Fired(p) <= Len(EligibleMunitions(p))
            /\ ~AnyIn(fighters, StatsOf(pilot_stats, p).aircraft_type)
                   => Fired(p) = 0 /\ Kills(p) = 0

\* A western fighter pilot was credited while an eastern munition of the
\* pilot's own coalition was among the launches, next to a transport pilot.
C14_Witness ==
    /\ KillsDone
    /\ \E p \in Pilots :
          /\ Fired(p) >= 1
          /\ \E k \in 1..Len(aa_missiles) :
                /\ aa_missiles[k].Coalition = CoalitionOf(p)
                /\ ~SameSide(StatsOf(pilot_stats, p).aircraft_type,
                             aa_missiles[k].Name)
    /\ \E q \in Pilots : ~AnyIn(fighters, StatsOf(pilot_stats, q).aircraft_type)

\* The aircraft records that carry a pilot name, in the order analysed.
Piloted == SelectSeq(all_aircraft, LAMBDA a : a.Pilot # "")

\* The first record of pilot p among the records recs.
FirstRecord(recs, p) ==
    recs[CHOOSE k \in 1..Len(recs) :
             recs[k].Pilot = p /\ \A j \in 1..(k - 1) : recs[j].Pilot # p]

\* C15 - A missing pilot name is skipped without effect, under either
\* analyzer.  After the pilot analysis there is no entry for the empty name;
\* the entries are those of the records that carry a name, in the order
\* those records are listed, whatever pilotless records lie between them;
\* each entry has the identity of the pilot's first record and counts the
\* removed records of that pilot, and in the improved analyzer its survived
\* flag tells whether an alive record carries the name.
C15_MissingPilotSkipped ==
    PilotsDone =>
        LET recs == Piloted
        IN /\ ~HasPilot(pilot_stats, "")
           /\ [k \in 1..Len(pilot_stats) |-> pilot_stats[k].pilot_name]
                 = FirstSeen([k \in 1..Len(recs) |-> recs[k].Pilot])
           /\ \A i \in 1..Len(pilot_stats) :
                 LET st == pilot_stats[i]
                     first == FirstRecord(recs, st.pilot_name)
                 IN /\ st.aircraft_type = first.Name
                    /\ st.coalition = first.Coalition
                    /\ st.deaths = HowMany(removed_objects, LAMBDA o :
                                       is_plane(o) /\ o.Pilot = st.pilot_name)
                    /\ analyzer = "improved" =>
                          (st.survived
                             <=> \E k \in 1..Len(alive_objects) :
                                     /\ is_plane(alive_objects[k])
                                     /\ alive_objects[k].Pilot = st.pilot_name)

\* A removed aircraft without a pilot name was listed before the removed
\* aircraft of a pilot, and the run went on to its end.
C15_Witness ==
    /\ pc = "done" /\ exit_code = 0
    /\ Len(removed_aircraft) = 2
    /\ removed_aircraft[1].Pilot = ""
    /\ removed_aircraft[2].Pilot # ""
    /\ Len(pilot_stats) = 1
    /\ Deaths(removed_aircraft[2].Pilot) = 1

\* air_to_air_kills summed over the pilots of coalition c.
CoalitionKills(c) ==
    SumSeq([k \in 1..Len(pilot_stats) |->
               IF pilot_stats[k].coalition = c
               THEN pilot_stats[k].air_to_air_kills ELSE 0])

\* Removed aircraft of the coalition that the analyzers treat as the enemy
\* of coalition c.
EnemyLosses(c) ==
    HowMany(removed_objects, LAMBDA o :
        is_plane(o) /\ o.Coalition = (IF c = "Enemies" THEN "Allies" ELSE "Enemies"))

\* C16 - Coalition kill total is bounded by observed losses, improved
\* analyzer.  After calculate_kill_estimates the air_to_air_kills of the
\* pilots of a coalition add up to at most the number of removed aircraft
\* of the coalition treated as its enemy.
C16_CoalitionKillsBounded ==
    (analyzer = "improved" /\ pc = "kills") =>
        \A p \in Pilots : CoalitionKills(CoalitionOf(p)) <= EnemyLosses(CoalitionOf(p))

\* Two pilots of a coalition were each given a kill, and together as many
\* as the enemy lost.
C16_Witness ==
    /\ analyzer = "improved" /\ pc = "kills"
    /\ \E p, q \in Pilots :
          /\ p # q /\ CoalitionOf(p) = CoalitionOf(q)
          /\ Kills(p) >= 1 /\ Kills(q) >= 1
          /\ CoalitionKills(CoalitionOf(p)) = EnemyLosses(CoalitionOf(p))

\* C17 as stated - Coalition kill total is bounded by observed losses, basic
\* analyzer.  After calculate_kill_statistics the air_to_air_kills of the
\* pilots of a coalition add up to at most the number of removed aircraft
\* of the enemy coalition, however many pilots fired and however the
\* launches are spread over them.
C17_BasicCoalitionKillsBounded ==
    (analyzer = "basic" /\ pc = "kills") =>
        \A p \in Pilots : CoalitionKills(CoalitionOf(p)) <= EnemyLosses(CoalitionOf(p))

\* The input lines that hold the marker, in input order.
MarkerLines == SelectSeq(input_file, in_line)

\* The text of a line after the first occurrence of the marker, without the
\* line terminator.
TextAfterMarker(line) ==
    LET at == CHOOSE k \in 1..Len(line) :
                  line[k] = MARKER /\ \A j \in 1..(k - 1) : line[j] # MARKER
        last == IF line[Len(line)] = "\n" THEN Len(line) - 1 ELSE Len(line)
    IN SubSeq(line, at + 1, last)

\* s without the blanks and line terminators at its two ends.
Trimmed(s) ==
    LET solid == { k \in 1..Len(s) : s[k] \notin Whitespace }
    IN IF solid = {} THEN <<>>
       ELSE SubSeq(s, CHOOSE k \in solid : \A j \in solid : k <= j,
                      CHOOSE k \in solid : \A j \in solid : j <= k)

\* The entries of the output file, each without the terminator written
\* after it.
WrittenEntries ==
    [k \in 1..Len(output_file.entries) |->
        SubSeq(output_file.entries[k], 1, Len(output_file.entries[k]) - 1)]

\* C18 as stated - extract_combat_logs is an order-preserving filter.  The
\* entries written are one per input line that holds the marker, in input
\* order, each the text after the first occurrence of the marker; when no
\* input line holds the marker the output file is never opened and False
\* is returned.
C18_FilterTextAfterMarker ==
    /\ returned = "True" =>
          /\ output_file # <<>>
          /\ WrittenEntries
                = [k \in 1..Len(MarkerLines) |-> TextAfterMarker(MarkerLines[k])]
    /\ MarkerLines = <<>> =>
          /\ output_file = <<>>
          /\ extract_pc = "done" => returned = "False"

\* C18 - extract_combat_logs is an order-preserving filter.  The entries
\* written are one per input line that holds the marker, in input order,
\* each the text after the first occurrence of the marker with the white
\* space at its two ends removed (an empty entry when nothing else follows
\* the marker); the output file is written only by a call that returns
\* True; when no input line holds the marker the output file is never
\* opened and False is returned.
C18_FilterStrippedText ==
    /\ returned = "True" => output_file # <<>>
    /\ output_file # <<>> =>
          /\ returned = "True"
          /\ output_file.total_events = Len(MarkerLines)
          /\ WrittenEntries
                = [k \in 1..Len(MarkerLines) |->
                      Trimmed(TextAfterMarker(MarkerLines[k]))]
    /\ MarkerLines = <<>> =>
          /\ output_file = <<>>
          /\ extract_pc = "done" => returned = "False"

\* A file whose first line has no marker, whose second holds it twice and
\* whose third holds it before blank-padded text was extracted.
C18_Witness ==
    /\ returned = "True"
    /\ Len(input_file) = 3
    /\ ~in_line(input_file[1])
    /\ input_file[2] = <<MARKER, "a", MARKER, "b", "\n">>
    /\ input_file[3] = <<MARKER, " ", "a", " ", "\n">>
    /\ Len(output_file.entries) = 2

====
